---- MODULE Spec2Model ----
(***************************************************************************)
(* The marbles transaction family of sawtooth-simplewallet:                *)
(* pyprocessor/processor/marbles_tp.py, MarblesTransactionHandler.apply    *)
(* and the three operations it dispatches to, run against the validator's  *)
(* state (get_state / set_state / delete_state).                           *)
(*                                                                         *)
(* Text is a sequence of one-character strings, so that split, join, int   *)
(* and str are computed character by character.  All characters used are   *)
(* ASCII, for which encode('utf-8') and decode() keep every character.     *)
(*                                                                         *)
(* The validator commits the writes of a transaction whose apply returns   *)
(* and drops those of one whose apply raises.  In Spec and SpecConcurrent  *)
(* it answers every set_state and delete_state consistently (the context   *)
(* is sound); a context that is not sound reports nothing written.         *)
(* Marble names are not empty.                                             *)
(***************************************************************************)
EXTENDS Integers, Sequences, FiniteSets, TLC

VARIABLES
    state,      \* the validator's ledger: address -> stored bytes, or Absent
    last,       \* the transaction applied last: payload, outcome, calls, state before,
                \* the state its context held when apply ended, the context's soundness
    pending,    \* transactions submitted to the validator and not yet applied
    receipts    \* the outcomes of the applied transactions, in commit order

vars == <<state, last, pending, receipts>>

-----------------------------------------------------------------------------
(* Bounds of the model *)

\* Transactions a client submits in one run of the concurrent specification.
MaxTxns == 2

\* Transactions applied in one run of the replay specification.
MaxReplay == 4

-----------------------------------------------------------------------------
(* Text: split, join, int, str *)

Absent == <<"<absent>">>

\* str.split(","): the fields between the commas; "" splits into [""].
RECURSIVE SplitFrom(_, _, _)
SplitFrom(s, i, cur) ==
    IF i > Len(s) THEN <<cur>>
    ELSE IF s[i] = "," THEN <<cur>> \o SplitFrom(s, i + 1, <<>>)
    ELSE SplitFrom(s, i + 1, Append(cur, s[i]))

Split(s) == SplitFrom(s, 1, <<>>)

\* ",".join(fields)
RECURSIVE Join(_)
Join(fields) ==
    IF Len(fields) = 0 THEN <<>>
    ELSE IF Len(fields) = 1 THEN fields[1]
    ELSE fields[1] \o <<",">> \o Join(Tail(fields))

DigitChars == <<"0", "1", "2", "3", "4", "5", "6", "7", "8", "9">>

IsDigit(c) == \E d \in 1..10 : DigitChars[d] = c

DigitVal(c) == (CHOOSE d \in 1..10 : DigitChars[d] = c) - 1

WhiteSpace == {" ", "\t", "\n", "\r"}

RECURSIVE LStrip(_)
LStrip(s) ==
    IF Len(s) > 0 /\ s[1] \in WhiteSpace THEN LStrip(Tail(s)) ELSE s

RECURSIVE RStrip(_)
RStrip(s) ==
    IF Len(s) > 0 /\ s[Len(s)] \in WhiteSpace
    THEN RStrip(SubSeq(s, 1, Len(s) - 1)) ELSE s

\* The digits of an integer literal: digits, with single underscores between them.
WellFormedDigits(d) ==
    /\ Len(d) > 0
    /\ \A i \in 1..Len(d) : IsDigit(d[i]) \/ d[i] = "_"
    /\ IsDigit(d[1]) /\ IsDigit(d[Len(d)])
    /\ \A i \in 1..(Len(d) - 1) : ~(d[i] = "_" /\ d[i + 1] = "_")

RECURSIVE DigitsValue(_, _)
DigitsValue(d, acc) ==
    IF Len(d) = 0 THEN acc
    ELSE IF d[1] = "_" THEN DigitsValue(Tail(d), acc)
    ELSE DigitsValue(Tail(d), 10 * acc + DigitVal(d[1]))

\* int(text): [ok |-> TRUE, value |-> n], or [ok |-> FALSE] where Python raises ValueError.
int(text) ==
    LET t == RStrip(LStrip(text))
        signed == Len(t) > 0 /\ t[1] \in {"+", "-"}
        digits == IF signed THEN Tail(t) ELSE t
    IN  IF WellFormedDigits(digits)
        THEN [ok |-> TRUE,
              value |-> IF signed /\ t[1] = "-"
                        THEN 0 - DigitsValue(digits, 0) ELSE DigitsValue(digits, 0)]
        ELSE [ok |-> FALSE, value |-> 0]

RECURSIVE NatToStr(_)
NatToStr(n) ==
    IF n < 10 THEN <<DigitChars[n + 1]>>
    ELSE NatToStr(n \div 10) \o <<DigitChars[(n % 10) + 1]>>

\* str(n) of an int
str(n) == IF n < 0 THEN <<"-">> \o NatToStr(0 - n) ELSE NatToStr(n)

-----------------------------------------------------------------------------
(* Outcomes of apply: a normal return, or the exception raised *)

OK == <<"return", "">>
InvalidNumberOfArgs == <<"InvalidTransaction", "Invalid number of args">>
MarbleAlreadyExists == <<"InvalidTransaction", "Marble already exists">>
MarbleDoesNotExist == <<"InvalidTransaction", "Marble does not exist">>
StateError == <<"InternalError", "State Error">>
IndexError == <<"IndexError", "list index out of range">>
ValueError == <<"ValueError", "invalid literal for int() with base 10">>
NoOutcome == <<"none", "">>

-----------------------------------------------------------------------------
(* Addresses *)

FAMILY_NAME == <<"m", "a", "r", "b", "l", "e", "s">>

\* hashlib.sha512(data).hexdigest() of the data the model hashes, as the three
\* pieces that the slices [0:6] and [0:64] cut it into: [0:6], [6:64], [64:128]
_hash(data) ==
    CASE data = FAMILY_NAME ->
         <<"b98f57",
           "cc0de342f6b3c1b634ad9e027f7d5c2919d855f186219aa5f560d0d728",
           "22dbf83bfabca3e490fab862db341e872707794a45faa46ae7c07bfa65e00903">>
      [] data = <<"m">> ->
         <<"f14aae",
           "6a0e050b74e4b7b9a5b2ef1a60ceccbbca39b132ae3e8bf88d3a946c6d",
           "8687f3266fd2b626419d8b67dcf1d8d7c0fe72d4919d9bd05efbd37070cfb41a">>
      [] data = <<"n">> ->
         <<"917148",
           "ec47923f2e0e3d73142ac4f94ec4c73078865ba6d29f0ea172cd6f4bf3",
           "4db699af5c33535d3694d4aef91a11f916004d0382f794448a8550623d34c985">>

\* hexdigest[0:6]
First6(hexdigest) == hexdigest[1]

\* hexdigest[0:64]
First64(hexdigest) == hexdigest[1] \o hexdigest[2]

_get_marble_address(from_key) ==
    First6(_hash(FAMILY_NAME)) \o First64(_hash(from_key))

sw_namespace == First6(_hash(FAMILY_NAME))

-----------------------------------------------------------------------------
(* The validator's state context of one transaction *)

Names == {<<"m">>, <<"n">>}

Addresses == {_get_marble_address(n) : n \in Names}

\* The context handed to apply: the state the transaction sees, whether the
\* validator answers its requests consistently, and the requests made so far.
NewContext(st, sound) == [state |-> st, sound |-> sound, calls |-> <<>>]

\* context.get_state([address]): the entries that exist, as a list
get_state(context, address) ==
    [context |-> [context EXCEPT !.calls = Append(@, <<"get_state", address>>)],
     entries |-> IF context.state[address] = Absent THEN <<>>
                 ELSE <<[address |-> address, data |-> context.state[address]]>>]

\* context.set_state({address: data}): the addresses written
set_state(context, address, data) ==
    IF context.sound
    THEN [context |-> [context EXCEPT !.state[address] = data,
                                      !.calls = Append(@, <<"set_state", address>>)],
          addresses |-> <<address>>]
    ELSE [context |-> [context EXCEPT !.calls = Append(@, <<"set_state", address>>)],
          addresses |-> <<>>]

\* context.delete_state([address]): the addresses removed
delete_state(context, address) ==
    IF context.sound /\ context.state[address] # Absent
    THEN [context |-> [context EXCEPT !.state[address] = Absent,
                                      !.calls = Append(@, <<"delete_state", address>>)],
          addresses |-> <<address>>]
    ELSE [context |-> [context EXCEPT !.calls = Append(@, <<"delete_state", address>>)],
          addresses |-> <<>>]

Return(context) == [outcome |-> OK, context |-> context]

Raise(context, exception) == [outcome |-> exception, context |-> context]

-----------------------------------------------------------------------------
(* class Marble *)

\* Marble(args): the marble, or the exception its constructor raises
Marble(args) ==
    IF Len(args) # 4
    THEN [raised |-> InvalidNumberOfArgs]
    ELSE IF ~int(args[3]).ok
    THEN [raised |-> ValueError]
    ELSE [raised |-> NoOutcome,
          name |-> args[1],
          color |-> args[2],
          size |-> int(args[3]).value,
          owner |-> args[4]]

to_string(marble) ==
    Join(<<marble.name, marble.color, str(marble.size), marble.owner>>)

-----------------------------------------------------------------------------
(* MarblesTransactionHandler *)

initMarble == <<"i", "n", "i", "t", "M", "a", "r", "b", "l", "e">>
deleteMarble == <<"d", "e", "l", "e", "t", "e", "M", "a", "r", "b", "l", "e">>
transferMarble ==
    <<"t", "r", "a", "n", "s", "f", "e", "r", "M", "a", "r", "b", "l", "e">>

\* _init_marble without the test of current_entry
_init_marble_overwrites(context, args) ==
    IF Len(args) = 0 THEN Raise(context, IndexError)
    ELSE
    LET marble_address == _get_marble_address(args[1])
        current_entry == get_state(context, marble_address)
        written == set_state(current_entry.context, marble_address, Join(args))
    IN  IF Len(written.addresses) < 1
        THEN Raise(written.context, StateError)
        ELSE Return(written.context)

\* _init_marble writing before it tests current_entry
_init_marble_writes_first(context, args) ==
    IF Len(args) = 0 THEN Raise(context, IndexError)
    ELSE
    LET marble_address == _get_marble_address(args[1])
        current_entry == get_state(context, marble_address)
        written == set_state(current_entry.context, marble_address, Join(args))
    IN  IF current_entry.entries # <<>>
        THEN Raise(written.context, MarbleAlreadyExists)
        ELSE IF Len(written.addresses) < 1
        THEN Raise(written.context, StateError)
        ELSE Return(written.context)

\* _init_marble not looking at what set_state returns
_init_marble_unchecked(context, args) ==
    IF Len(args) = 0 THEN Raise(context, IndexError)
    ELSE
    LET marble_address == _get_marble_address(args[1])
        current_entry == get_state(context, marble_address)
    IN  IF current_entry.entries # <<>>
        THEN Raise(current_entry.context, MarbleAlreadyExists)
        ELSE Return(set_state(current_entry.context, marble_address,
                              Join(args)).context)

\* _init_marble joining owner before size
_init_marble_misordered(context, args) ==
    IF Len(args) = 0 THEN Raise(context, IndexError)
    ELSE
    LET marble_address == _get_marble_address(args[1])
        current_entry == get_state(context, marble_address)
        state_data == IF Len(args) = 4
                      THEN Join(<<args[1], args[2], args[4], args[3]>>)
                      ELSE Join(args)
        written == set_state(current_entry.context, marble_address, state_data)
    IN  IF current_entry.entries # <<>>
        THEN Raise(current_entry.context, MarbleAlreadyExists)
        ELSE IF Len(written.addresses) < 1
        THEN Raise(written.context, StateError)
        ELSE Return(written.context)

_init_marble(context, args) ==
    IF Len(args) = 0 THEN Raise(context, IndexError)
    ELSE
    LET key == args[1]
        marble_address == _get_marble_address(key)
        current_entry == get_state(context, marble_address)
    IN  IF current_entry.entries # <<>>
        THEN Raise(current_entry.context, MarbleAlreadyExists)
        ELSE
        LET state_data == Join(args)
            written == set_state(current_entry.context, marble_address, state_data)
        IN  IF Len(written.addresses) < 1
            THEN Raise(written.context, StateError)
            ELSE Return(written.context)

\* _delete_marble raising when there is no marble
_delete_marble_strict(context, args) ==
    IF Len(args) # 1 THEN Raise(context, InvalidNumberOfArgs)
    ELSE
    LET marble_address == _get_marble_address(args[1])
        marble == get_state(context, marble_address)
        removed == delete_state(marble.context, marble_address)
    IN  IF marble.entries = <<>>
        THEN Raise(marble.context, MarbleDoesNotExist)
        ELSE IF Len(removed.addresses) < 1
        THEN Raise(removed.context, StateError)
        ELSE Return(removed.context)

\* _delete_marble overwriting the entry with a marker instead of removing it
_delete_marble_tombstone(context, args) ==
    IF Len(args) # 1 THEN Raise(context, InvalidNumberOfArgs)
    ELSE
    LET marble_address == _get_marble_address(args[1])
        marble == get_state(context, marble_address)
        removed == set_state(marble.context, marble_address, <<"d", "e", "l">>)
    IN  IF marble.entries = <<>>
        THEN Return(marble.context)
        ELSE IF Len(removed.addresses) < 1
        THEN Raise(removed.context, StateError)
        ELSE Return(removed.context)

\* _delete_marble removing every entry of the namespace
_delete_marble_namespace(context, args) ==
    IF Len(args) # 1 THEN Raise(context, InvalidNumberOfArgs)
    ELSE
    LET marble_address == _get_marble_address(args[1])
        marble == get_state(context, marble_address)
        removed == delete_state(marble.context, marble_address)
    IN  IF marble.entries = <<>>
        THEN Return(marble.context)
        ELSE IF Len(removed.addresses) < 1
        THEN Raise(removed.context, StateError)
        ELSE Return([removed.context EXCEPT
                         !.state = [a \in DOMAIN @ |-> Absent]])

\* _delete_marble testing len(args) < 1
_delete_marble_lax(context, args) ==
    IF Len(args) < 1 THEN Raise(context, InvalidNumberOfArgs)
    ELSE
    LET marble_address == _get_marble_address(args[1])
        marble == get_state(context, marble_address)
        removed == delete_state(marble.context, marble_address)
    IN  IF marble.entries = <<>>
        THEN Return(marble.context)
        ELSE IF Len(removed.addresses) < 1
        THEN Raise(removed.context, StateError)
        ELSE Return(removed.context)

_delete_marble(context, args) ==
    IF Len(args) # 1 THEN Raise(context, InvalidNumberOfArgs)
    ELSE
    LET key == args[1]
        marble_address == _get_marble_address(key)
        marble == get_state(context, marble_address)
    IN  IF marble.entries = <<>>
        THEN Return(marble.context)
        ELSE
        LET removed == delete_state(marble.context, marble_address)
        IN  IF Len(removed.addresses) < 1
            THEN Raise(removed.context, StateError)
            ELSE Return(removed.context)

\* _transfer_marble assigning to_person to the name of the marble
TransferFound_renames(context, marble_address, data, to_person) ==
    LET marble == Marble(Split(data))
    IN  IF marble.raised # NoOutcome
        THEN Raise(context, marble.raised)
        ELSE Return(set_state(context, marble_address,
                              to_string([marble EXCEPT !.name = to_person])).context)

\* _transfer_marble on the entry it found: decode the marble, set its owner,
\* write it back; the result of set_state is not looked at
TransferFound(context, marble_address, data, to_person) ==
    LET marble == Marble(Split(data))
    IN  IF marble.raised # NoOutcome
        THEN Raise(context, marble.raised)
        ELSE Return(set_state(context, marble_address,
                              to_string([marble EXCEPT !.owner = to_person])).context)

\* _transfer_marble returning when there is no marble
_transfer_marble_silent(context, args) ==
    IF Len(args) # 2 THEN Raise(context, InvalidNumberOfArgs)
    ELSE
    LET marble_address == _get_marble_address(args[1])
        current_entry == get_state(context, marble_address)
    IN  IF current_entry.entries = <<>>
        THEN Return(current_entry.context)
        ELSE TransferFound(current_entry.context, marble_address,
                           current_entry.entries[1].data, args[2])

\* _transfer_marble writing a new marble when there is none
_transfer_marble_upsert(context, args) ==
    IF Len(args) # 2 THEN Raise(context, InvalidNumberOfArgs)
    ELSE
    LET marble_address == _get_marble_address(args[1])
        current_entry == get_state(context, marble_address)
    IN  IF current_entry.entries = <<>>
        THEN Return(set_state(current_entry.context, marble_address,
                              Join(<<args[1], <<>>, <<"0">>, args[2]>>)).context)
        ELSE TransferFound(current_entry.context, marble_address,
                           current_entry.entries[1].data, args[2])

_transfer_marble(context, args) ==
    IF Len(args) # 2 THEN Raise(context, InvalidNumberOfArgs)
    ELSE
    LET key == args[1]
        to_person == args[2]
        marble_address == _get_marble_address(key)
        current_entry == get_state(context, marble_address)
    IN  IF current_entry.entries = <<>>
        THEN Raise(current_entry.context, MarbleDoesNotExist)
        ELSE TransferFound(current_entry.context, marble_address,
                           current_entry.entries[1].data, to_person)

\* apply letting only the key of USER_NAME transfer and delete
apply_owner_only(transaction, context) ==
    LET header == transaction.header
        payload_list == Split(transaction.payload)
        operation == payload_list[1]
        args == Tail(payload_list)
        from_key == header.signer_public_key
    IN  IF operation = initMarble THEN _init_marble(context, args)
        ELSE IF operation \in {deleteMarble, transferMarble} /\ from_key # "jack"
        THEN Raise(context, <<"InvalidTransaction", "Not the owner">>)
        ELSE IF operation = deleteMarble THEN _delete_marble(context, args)
        ELSE IF operation = transferMarble THEN _transfer_marble(context, args)
        ELSE Return(context)

\* apply raising on an operation it does not know
apply_strict(transaction, context) ==
    LET payload_list == Split(transaction.payload)
        operation == payload_list[1]
        args == Tail(payload_list)
    IN  IF operation = initMarble THEN _init_marble(context, args)
        ELSE IF operation = deleteMarble THEN _delete_marble(context, args)
        ELSE IF operation = transferMarble THEN _transfer_marble(context, args)
        ELSE Raise(context, <<"InvalidTransaction", "Unhandled action">>)

\* apply(transaction, context), for the transaction's payload
apply(transaction, context) ==
    LET header == transaction.header
        payload_list == Split(transaction.payload)
        operation == payload_list[1]
        args == Tail(payload_list)
    IN  IF operation = initMarble THEN _init_marble(context, args)
        ELSE IF operation = deleteMarble THEN _delete_marble(context, args)
        ELSE IF operation = transferMarble THEN _transfer_marble(context, args)
        ELSE Return(context)

-----------------------------------------------------------------------------
(* Transactions the clients submit *)

Colors == {<<"r">>}
Sizes == {<<"7">>, <<"0", "7">>, <<"x">>}
Owners == {<<"a">>, <<"b">>}
Extra == <<"z">>

\* signer_public_key of the transaction header: the client signs with the key
\* of USER_NAME
USER_NAME == "jack"
Signers == {USER_NAME}

InitArgs == {<<n, c, s, o>> : n \in Names, c \in Colors, s \in Sizes, o \in Owners}

\* initMarble with 4 arguments, and with 0 to 3 and with 5
ShortArgs == {<<n, <<"r">>, <<"7">>, <<"a">>>> : n \in Names}

InitArgLists ==
    InitArgs \cup {SubSeq(a, 1, k) : a \in ShortArgs, k \in 0..3}
        \cup {Append(a, Extra) : a \in ShortArgs}

\* deleteMarble with 0 to 2 arguments
DeleteArgLists ==
    {<<>>} \cup {<<n>> : n \in Names} \cup {<<n, o>> : n \in Names, o \in Owners}

\* transferMarble with 0 to 3 arguments
TransferArgLists ==
    {<<>>} \cup {<<n>> : n \in Names} \cup {<<n, o>> : n \in Names, o \in Owners}
        \cup {<<n, o, Extra>> : n \in Names, o \in Owners}

\* tags apply does not know: another name, the empty tag, a known tag in lower case
OtherTags ==
    { <<"r", "e", "a", "d", "M", "a", "r", "b", "l", "e">>,
      <<>>,
      <<"i", "n", "i", "t", "m", "a", "r", "b", "l", "e">> }

OtherArgLists ==
    {<<>>} \cup {<<n>> : n \in Names} \cup {<<<<"m">>, <<"r">>, <<"7">>, <<"a">>>>}

\* the payload the client encodes: "operation,arg1,arg2,..."
Payload(operation, args) == Join(<<operation>> \o args)

InitPayloads == {Payload(initMarble, a) : a \in InitArgLists}
DeletePayloads == {Payload(deleteMarble, a) : a \in DeleteArgLists}
TransferPayloads == {Payload(transferMarble, a) : a \in TransferArgLists}
OtherPayloads == {Payload(t, a) : t \in OtherTags, a \in OtherArgLists}

Transaction(signer, payload) ==
    [header |-> [signer_public_key |-> signer], payload |-> payload]

TransactionsOf(payloads) == {Transaction(k, p) : k \in Signers, p \in payloads}

InitTransactions == TransactionsOf(InitPayloads)
DeleteTransactions == TransactionsOf(DeletePayloads)
TransferTransactions == TransactionsOf(TransferPayloads)
OtherTransactions == TransactionsOf(OtherPayloads)

NoTransaction == Transaction("", <<>>)

\* what apply takes from the payload
Operation(transaction) == Split(transaction.payload)[1]
Args(transaction) == Tail(Split(transaction.payload))

-----------------------------------------------------------------------------
(* The validator applies one transaction *)

EmptyState == [a \in Addresses |-> Absent]

\* The validator runs apply on the transaction against the current state and
\* commits the context's writes when apply returns; a transaction whose apply
\* raises is not committed.
Commit(transaction, sound) ==
    \E done \in {apply(transaction, NewContext(state, sound))} :
        /\ state' = IF done.outcome = OK THEN done.context.state ELSE state
        /\ last' = [transaction |-> transaction,
                    outcome |-> done.outcome,
                    calls |-> done.context.calls,
                    before |-> state,
                    context |-> done.context.state,
                    sound |-> sound]

Init ==
    /\ state = EmptyState
    /\ last = [transaction |-> NoTransaction, outcome |-> NoOutcome,
               calls |-> <<>>, before |-> EmptyState,
               context |-> EmptyState, sound |-> TRUE]
    /\ pending = {}
    /\ receipts = <<>>

InitMarble ==
    \E t \in InitTransactions :
        Commit(t, TRUE) /\ UNCHANGED <<pending, receipts>>

DeleteMarble ==
    \E t \in DeleteTransactions :
        Commit(t, TRUE) /\ UNCHANGED <<pending, receipts>>

TransferMarble ==
    \E t \in TransferTransactions :
        Commit(t, TRUE) /\ UNCHANGED <<pending, receipts>>

Unhandled ==
    \E t \in OtherTransactions :
        Commit(t, TRUE) /\ UNCHANGED <<pending, receipts>>

Next == InitMarble \/ DeleteMarble \/ TransferMarble \/ Unhandled

Spec == Init /\ [][Next]_vars

-----------------------------------------------------------------------------
(* Clients submit transactions concurrently; the validator applies them one  *)
(* at a time, in an order of its choosing.                                   *)

\* the transactions the concurrent clients submit: initMarble with 4 arguments
ConcurrentTransactions == TransactionsOf({Payload(initMarble, a) : a \in InitArgs})

Submitted == Cardinality(pending) + Len(receipts)

Submit ==
    \E t \in ConcurrentTransactions :
        /\ Submitted < MaxTxns
        /\ pending' = pending \cup {[id |-> Submitted + 1, transaction |-> t]}
        /\ UNCHANGED <<state, last, receipts>>

\* The validator applies a pending transaction; the receipt records whether the
\* marble existed before it and which transactions were still in flight.
Process ==
    \E p \in pending :
        /\ Commit(p.transaction, TRUE)
        /\ pending' = pending \ {p}
        /\ receipts' = Append(receipts,
               [id |-> p.id,
                transaction |-> p.transaction,
                outcome |-> last'.outcome,
                existed |-> state[_get_marble_address(Args(p.transaction)[1])] # Absent,
                overlapped |-> {q.id : q \in pending \ {p}}])

NextConcurrent == Submit \/ Process

SpecConcurrent == Init /\ [][NextConcurrent]_vars

-----------------------------------------------------------------------------
(* A validator that may answer set_state and delete_state inconsistently:    *)
(* it reports no address written or removed, and writes and removes nothing. *)

InitMarbleUnsound ==
    \E t \in InitTransactions :
        Commit(t, FALSE) /\ UNCHANGED <<pending, receipts>>

DeleteMarbleUnsound ==
    \E t \in DeleteTransactions :
        Commit(t, FALSE) /\ UNCHANGED <<pending, receipts>>

TransferMarbleUnsound ==
    \E t \in TransferTransactions :
        Commit(t, FALSE) /\ UNCHANGED <<pending, receipts>>

NextFaulty ==
    \/ InitMarble \/ DeleteMarble \/ TransferMarble \/ Unhandled
    \/ InitMarbleUnsound \/ DeleteMarbleUnsound \/ TransferMarbleUnsound

SpecFaulty == Init /\ [][NextFaulty]_vars

-----------------------------------------------------------------------------
(* The validator applies transactions of two submitters to one marble and    *)
(* keeps, for each, the state before it and the state after it.              *)

ReplaySigners == {USER_NAME, "jill"}

ReplayPayloads ==
    { Payload(initMarble, <<<<"m">>, <<"r">>, <<"0", "7">>, <<"a">>>>),
      Payload(initMarble, <<<<"m">>, <<"r">>, <<"7">>, <<"b">>>>),
      Payload(transferMarble, <<<<"m">>, <<"a">>>>),
      Payload(transferMarble, <<<<"m">>, <<"b">>>>),
      Payload(deleteMarble, <<<<"m">>>>) }

ReplayTransactions == {Transaction(k, p) : k \in ReplaySigners, p \in ReplayPayloads}

Replay ==
    \E t \in ReplayTransactions :
        /\ Len(receipts) < MaxReplay
        /\ Commit(t, TRUE)
        /\ receipts' = Append(receipts,
               [transaction |-> t,
                outcome |-> last'.outcome,
                before |-> state,
                after |-> state'])
        /\ UNCHANGED pending

NextReplay == Replay

SpecReplay == Init /\ [][NextReplay]_vars

-----------------------------------------------------------------------------
(* Properties *)

Applied == last.outcome # NoOutcome
LastOperation == Operation(last.transaction)
LastArgs == Args(last.transaction)
\* the address of the marble the last transaction names
LastAddress == _get_marble_address(LastArgs[1])
Rejected(outcome) == outcome # OK /\ outcome # NoOutcome

\* C1: a successful transferMarble(name, owner2) on a stored record changes
\* only the owner field: name, color and size are the same characters before
\* and after, and the owner field is owner2.
C1_TransferChangesOnlyOwner ==
    (Applied /\ LastOperation = transferMarble /\ last.outcome = OK) =>
        LET old == Split(last.before[LastAddress])
            new == Split(state[LastAddress])
        IN  /\ Len(old) = 4 /\ Len(new) = 4
            /\ new[1] = old[1] /\ new[2] = old[2] /\ new[3] = old[3]
            /\ new[4] = LastArgs[2]

\* C2: initMarble for a name whose address already holds a record is rejected
\* with "Marble already exists", whatever its arguments, and the ledger state
\* is the one before it.
C2_InitOnExistingRejected ==
    (Applied /\ LastOperation = initMarble /\ Len(LastArgs) >= 1
        /\ last.before[LastAddress] # Absent) =>
            /\ last.outcome = MarbleAlreadyExists
            /\ state = last.before

C2_Witness ==
    /\ Applied /\ LastOperation = initMarble /\ Len(LastArgs) = 4
    /\ last.before[LastAddress] # Absent
    /\ Split(last.before[LastAddress]) # LastArgs
    /\ last.outcome = MarbleAlreadyExists
    /\ state[LastAddress] = last.before[LastAddress]

\* C3: after a successful initMarble(name, color, size, owner) on a name that
\* did not exist, the value stored at address(name) decodes to exactly these
\* four fields in the order name, color, size, owner.
C3_InitStoresFields ==
    (Applied /\ LastOperation = initMarble /\ Len(LastArgs) = 4
        /\ last.before[LastAddress] = Absent /\ last.outcome = OK) =>
            /\ state[LastAddress] # Absent
            /\ Split(state[LastAddress])
                   = <<LastArgs[1], LastArgs[2], LastArgs[3], LastArgs[4]>>

C3_Witness ==
    /\ Applied /\ LastOperation = initMarble /\ Len(LastArgs) = 4
    /\ last.before[LastAddress] = Absent /\ last.outcome = OK
    /\ LastArgs[3] = <<"0", "7">>
    /\ Split(state[LastAddress]) = LastArgs

\* C4: transferMarble(name, owner2) for a name with no record is rejected with
\* "Marble does not exist" and leaves the whole ledger state as it was.
C4_TransferOnAbsentRejected ==
    (Applied /\ LastOperation = transferMarble /\ Len(LastArgs) = 2
        /\ last.before[LastAddress] = Absent) =>
            /\ last.outcome = MarbleDoesNotExist
            /\ state = last.before

C4_Witness ==
    /\ Applied /\ LastOperation = transferMarble /\ Len(LastArgs) = 2
    /\ last.before[LastAddress] = Absent
    /\ last.outcome = MarbleDoesNotExist
    /\ state[LastAddress] = Absent
    /\ \E a \in Addresses : state[a] # Absent

\* C5: deleteMarble(name) for a name with no record returns normally and
\* leaves the ledger state as it was; and after a deleteMarble(name) that
\* returned, applying the same transaction again returns and gives the same
\* state.
C5_DeleteIdempotent ==
    /\ (Applied /\ LastOperation = deleteMarble /\ Len(LastArgs) = 1
          /\ last.before[LastAddress] = Absent) =>
              (last.outcome = OK /\ state = last.before)
    /\ (Applied /\ LastOperation = deleteMarble /\ last.outcome = OK) =>
          LET again == apply(last.transaction, NewContext(state, TRUE))
          IN  again.outcome = OK /\ again.context.state = state

\* a deleteMarble of a name with no record while another marble exists
C5_Witness ==
    /\ Applied /\ LastOperation = deleteMarble /\ Len(LastArgs) = 1
    /\ last.before[LastAddress] = Absent
    /\ last.outcome = OK
    /\ last.calls = <<<<"get_state", LastAddress>>>>
    /\ \E a \in Addresses : state[a] # Absent

\* the transaction of a step names the marble at address(n)
Targets(transaction, n) ==
    Len(Args(transaction)) >= 1 /\ Args(transaction)[1] = n

\* C6: in every step, for every name: the marble comes to exist only by an
\* initMarble that returned, ceases to exist only by a deleteMarble that
\* returned, and still exists after a transferMarble; initMarble on an
\* existing marble and transferMarble on a nonexistent one are rejected, and
\* deleteMarble on a nonexistent one returns without changing the state.
Lifecycle(n) ==
    LET a == _get_marble_address(n)
        t == last'.transaction
        op == Operation(t)
    IN  /\ (state[a] = Absent /\ state'[a] # Absent) =>
               (op = initMarble /\ Targets(t, n) /\ last'.outcome = OK)
        /\ (state[a] # Absent /\ state'[a] = Absent) =>
               (op = deleteMarble /\ Targets(t, n) /\ last'.outcome = OK)
        /\ (state[a] # Absent /\ op = transferMarble) => state'[a] # Absent
        /\ (state[a] # Absent /\ op = initMarble /\ Targets(t, n)) =>
               (Rejected(last'.outcome) /\ state' = state)
        /\ (state[a] = Absent /\ op = transferMarble /\ Targets(t, n)) =>
               (Rejected(last'.outcome) /\ state' = state)
        /\ (state[a] = Absent /\ op = deleteMarble /\ Args(t) = <<n>>) =>
               (last'.outcome = OK /\ state' = state)

C6_Lifecycle == [][\A n \in Names : Lifecycle(n)]_vars

\* a marble that was transferred and then deleted
C6_Witness ==
    /\ Applied /\ LastOperation = deleteMarble /\ last.outcome = OK
    /\ last.before[LastAddress] = Join(<<LastArgs[1], <<"r">>, <<"7">>, <<"b">>>>)
    /\ state[LastAddress] = Absent

ReceiptKey(r) == Args(r.transaction)[1]

\* C7: of two initMarble transactions for the same name that were in flight
\* together while the name did not exist, the one applied first returns, the
\* other is rejected with "Marble already exists", and the record stored is
\* the one the first wrote.
C7_ConcurrentInit ==
    \A i \in 1..Len(receipts) : \A j \in (i + 1)..Len(receipts) :
        (/\ ReceiptKey(receipts[i]) = ReceiptKey(receipts[j])
         /\ receipts[j].id \in receipts[i].overlapped
         /\ ~receipts[i].existed) =>
            /\ receipts[i].outcome = OK
            /\ receipts[j].outcome = MarbleAlreadyExists
            /\ Split(state[_get_marble_address(ReceiptKey(receipts[i]))])
                   = Args(receipts[i].transaction)

\* two in flight together, the one submitted later applied first
C7_Witness ==
    /\ Len(receipts) = 2
    /\ receipts[1].id = 2 /\ receipts[2].id = 1
    /\ receipts[1].overlapped = {1}
    /\ ReceiptKey(receipts[1]) = ReceiptKey(receipts[2])
    /\ receipts[1].transaction # receipts[2].transaction
    /\ receipts[1].outcome = OK
    /\ receipts[2].outcome = MarbleAlreadyExists

\* C8: an initMarble payload whose number of arguments is not 4 is rejected
\* with "Invalid number of args" and writes nothing.
C8_InitArityChecked ==
    (Applied /\ LastOperation = initMarble /\ Len(LastArgs) # 4) =>
        /\ last.outcome = InvalidNumberOfArgs
        /\ state = last.before

\* C9: a deleteMarble payload with other than 1 argument and a transferMarble
\* payload with other than 2 arguments are rejected with "Invalid number of
\* args" before any request to the state, and the ledger state is unchanged.
C9_DeleteTransferArityChecked ==
    (Applied /\ (\/ (LastOperation = deleteMarble /\ Len(LastArgs) # 1)
                 \/ (LastOperation = transferMarble /\ Len(LastArgs) # 2))) =>
        /\ last.outcome = InvalidNumberOfArgs
        /\ last.calls = <<>>
        /\ state = last.before

\* a deleteMarble with two arguments naming a marble that exists
C9_Witness ==
    /\ Applied /\ LastOperation = deleteMarble /\ Len(LastArgs) = 2
    /\ state[LastAddress] # Absent
    /\ last.outcome = InvalidNumberOfArgs

\* C10: a payload whose operation is none of initMarble, deleteMarble,
\* transferMarble is ignored: apply returns, makes no request to the state,
\* and the ledger state is unchanged, whatever arguments follow.
C10_UnknownOperationIgnored ==
    (Applied /\ LastOperation \notin {initMarble, deleteMarble, transferMarble}) =>
        /\ last.outcome = OK
        /\ last.calls = <<>>
        /\ state = last.before

\* the operation in lower case with the arguments of an initMarble
C10_Witness ==
    /\ Applied /\ LastOperation = <<"i", "n", "i", "t", "m", "a", "r", "b", "l", "e">>
    /\ Len(LastArgs) = 4
    /\ state[LastAddress] = Absent
    /\ last.outcome = OK

LastCall == last.calls[Len(last.calls)]

\* C11: a transaction that ends in a rejection leaves the ledger state as it
\* was, and no write or delete of its own has taken effect by the time the
\* rejection is raised: the state its context holds is the state before.
C11_RejectionLeavesState ==
    (Applied /\ Rejected(last.outcome)) =>
        /\ state = last.before
        /\ last.context = last.before

\* a rejection raised after a set_state that reported nothing written
C11_Witness ==
    /\ Applied /\ last.outcome = StateError
    /\ Len(last.calls) = 2 /\ LastCall[1] = "set_state"
    /\ \E a \in Addresses : state[a] # Absent
    /\ state = last.before

\* C12: initMarble is rejected with InternalError("State Error") when
\* set_state reports no address written, and deleteMarble on an entry that
\* get_state showed present is rejected with it when delete_state reports no
\* address removed.
C12_StorageErrorOnEmptyResult ==
    (Applied /\ ~last.sound /\ Len(last.calls) > 0) =>
        /\ (LastOperation = initMarble /\ LastCall[1] = "set_state")
               => last.outcome = StateError
        /\ (LastOperation = deleteMarble /\ LastCall[1] = "delete_state"
              /\ last.before[LastAddress] # Absent)
               => last.outcome = StateError

C12_Witness ==
    /\ Applied /\ ~last.sound
    /\ LastOperation = initMarble /\ Len(LastArgs) = 4
    /\ last.calls = <<<<"get_state", LastAddress>>, <<"set_state", LastAddress>>>>
    /\ last.outcome = StateError
    /\ state[LastAddress] = Absent

\* a deleteMarble of a present entry whose delete_state reported nothing removed
C12_WitnessDelete ==
    /\ Applied /\ ~last.sound
    /\ LastOperation = deleteMarble
    /\ last.calls = <<<<"get_state", LastAddress>>, <<"delete_state", LastAddress>>>>
    /\ last.outcome = StateError
    /\ state[LastAddress] # Absent

\* the persisted record format: four comma-delimited fields, the third an integer
WellFormedRecord(data) ==
    /\ Len(Split(data)) = 4
    /\ int(Split(data)[3]).ok

\* C13: in every reachable state every stored value has the persisted record
\* format: exactly four comma-delimited fields name, color, size, owner, the
\* size field parsing as an integer.
C13_StoredRecordFormat ==
    \A a \in Addresses : state[a] # Absent => WellFormedRecord(state[a])

\* C14: a transferMarble that fetches a stored record that does not decode
\* (not 4 fields, or a size that is no integer) is rejected with an error that
\* is not the "Invalid number of args" of a request with a wrong argument count.
C14_MalformedRecordDistinct ==
    (Applied /\ LastOperation = transferMarble /\ Len(LastArgs) = 2
        /\ last.before[LastAddress] # Absent
        /\ ~WellFormedRecord(last.before[LastAddress])) =>
            /\ Rejected(last.outcome)
            /\ last.outcome # InvalidNumberOfArgs

\* C16: a transferMarble on an existing record whose set_state reports no
\* address written is rejected with InternalError("State Error").
C16_TransferStorageError ==
    (Applied /\ ~last.sound /\ LastOperation = transferMarble
        /\ Len(last.calls) > 0 /\ LastCall[1] = "set_state") =>
            last.outcome = StateError

\* C15: the outcome of apply, the new ledger state or the rejection, depends
\* only on the ledger state presented and the payload: two applications with
\* the same state and payload agree, whoever signed them and whatever was
\* applied before.
C15_OutcomeFunctionOfStateAndPayload ==
    \A i \in 1..Len(receipts) : \A j \in (i + 1)..Len(receipts) :
        (/\ receipts[i].transaction.payload = receipts[j].transaction.payload
         /\ receipts[i].before = receipts[j].before) =>
            /\ receipts[i].outcome = receipts[j].outcome
            /\ receipts[i].after = receipts[j].after

\* the same initMarble by two signers, the marble deleted in between
C15_Witness ==
    /\ Len(receipts) >= 3
    /\ receipts[1].transaction.payload = receipts[3].transaction.payload
    /\ receipts[1].transaction.header # receipts[3].transaction.header
    /\ receipts[1].before = receipts[3].before
    /\ receipts[1].outcome = OK
    /\ receipts[1].after # receipts[1].before
    /\ receipts[2].after # receipts[2].before

\* C17: an initMarble(name, color2, size2, owner2) applied right after a
\* deleteMarble(name) that returned, whatever happened to the name before,
\* returns, and the ledger then holds exactly (name, color2, size2, owner2)
\* at address(name) and nothing else new.
C17_NoHistoryAfterDelete ==
    \A i \in 1..(Len(receipts) - 1) :
        LET del == receipts[i]
            ini == receipts[i + 1]
        IN  (/\ Operation(del.transaction) = deleteMarble /\ del.outcome = OK
             /\ Operation(ini.transaction) = initMarble
             /\ Len(Args(ini.transaction)) = 4
             /\ Args(ini.transaction)[1] = Args(del.transaction)[1]) =>
                /\ ini.outcome = OK
                /\ ini.after = [EmptyState EXCEPT
                       ![_get_marble_address(Args(ini.transaction)[1])] =
                           Join(Args(ini.transaction))]

\* init, transfer, delete, then an init with another size and owner
C17_Witness ==
    /\ Len(receipts) = 4
    /\ Operation(receipts[1].transaction) = initMarble /\ receipts[1].outcome = OK
    /\ Operation(receipts[2].transaction) = transferMarble /\ receipts[2].outcome = OK
    /\ receipts[2].after # receipts[2].before
    /\ Operation(receipts[3].transaction) = deleteMarble /\ receipts[3].outcome = OK
    /\ Operation(receipts[4].transaction) = initMarble /\ receipts[4].outcome = OK
    /\ Args(receipts[4].transaction) # Args(receipts[1].transaction)
    /\ Split(state[_get_marble_address(<<"m">>)]) = Args(receipts[4].transaction)

\* C18: an initMarble, deleteMarble or transferMarble on name n, returning or
\* rejected, makes requests only for address(n), and the entries at the
\* addresses of all other names are as before.
C18_OnlyOwnAddress ==
    (Applied /\ LastOperation \in {initMarble, deleteMarble, transferMarble}
        /\ Len(LastArgs) >= 1) =>
            /\ \A a \in Addresses \ {LastAddress} : state[a] = last.before[a]
            /\ \A i \in 1..Len(last.calls) : last.calls[i][2] = LastAddress

\* a marble removed while the other one is stored
C18_Witness ==
    /\ Applied /\ LastOperation = deleteMarble /\ last.outcome = OK
    /\ last.before[LastAddress] # Absent /\ state[LastAddress] = Absent
    /\ \E a \in Addresses \ {LastAddress} : state[a] # Absent

\* C19: in every reachable state the record stored at address(n) has n as its
\* name field.
C19_NameFieldIsKey ==
    \A n \in Names :
        state[_get_marble_address(n)] # Absent =>
            Split(state[_get_marble_address(n)])[1] = n

\* both marbles stored, one of them just transferred to a new owner
C19_Witness ==
    /\ Applied /\ LastOperation = transferMarble /\ last.outcome = OK
    /\ state[LastAddress] # last.before[LastAddress]
    /\ \A a \in Addresses : state[a] # Absent

====
